---- MODULE Spec2Model ----
(***************************************************************************)
(* A state-machine model of the aave-hl-funding-bot:                       *)
(*   - DeltaNeutralExecutor.execute_strategy  (strategies/...executor.py)  *)
(*   - WebSocketHandler, ProtocolDataManager readiness, main()'s loop      *)
(*   - PositionMonitor                         (utils/monitoring.py)       *)
(*   - PositionCalculator                      (utils/calculations.py)     *)
(* The specifications share one set of variables; each leaves the other    *)
(* components' variables unchanged.                                        *)
(***************************************************************************)
EXTENDS Integers, Sequences, FiniteSets, TLC

VARIABLES
    \* ---- DeltaNeutralExecutor.execute_strategy ----
    epc,          \* the statement execute_strategy is at ("idle" between invocations)
    retries,      \* iterations of the step-4 polling loop completed without break
    marginSeen,   \* the polling loop left through its break
    attempted,    \* history: the step tags whose operations this invocation called, in order
    succeeded,    \* history: the steps whose operation returned (and, step 4, were confirmed)
    result,       \* what the last invocation returned: "none" (running), "True", "False"
    invocations,  \* number of invocations started
    reports,      \* history: <<returned value, some step had succeeded>> of finished invocations
    min_eth_amount, \* the local min_eth_amount, in units of 1e-5 ETH (0 before it is computed)
    eth_received,   \* what the step-1 swap delivered to the wallet, same units (0: no swap yet)
    eth_supplied,   \* the amount passed to supply_eth, same units (0: not called yet)
    \* ---- PositionMonitor, fed by WebSocketHandler._handle_message ----
    latest_state,    \* PositionMonitor.latest_state: the last webData2 payload stored (NoState: None)
    asset_contexts,  \* PositionMonitor.asset_contexts: coin -> [funding, markPx]
    positions,       \* PositionMonitor.positions: coin -> PositionInfo
    last_channel,    \* message.get("channel") of the last message _handle_message was given
    invoked,         \* the registered handlers the last handled message invoked
    dropped,         \* history: the coins tracked before the last handled message and not after it
    handling,        \* how the last message's handling ended: "rebuilt" (the position loop
                     \* ran to its end), "raised" (it ended in _handle_message's except
                     \* clause), "returned" (process_position_data returned before the
                     \* loop), "skipped" (the handler did not call it), "ok"
    \* ---- WebSocketHandler, ProtocolDataManager readiness, main() ----
    running,         \* WebSocketHandler.running
    cpc,             \* where the _connect task is: "start", "connecting" (awaiting
                     \* websockets.connect), "sub" (inside _subscribe_all), "recv" (awaiting
                     \* recv), "sleep" (the except clause's sleep(5)), "exited"
    conn,            \* sockets established so far; _connect's local `websocket` is socket conn
    ws,              \* WebSocketHandler.ws: 0 for None, else a socket number
    open,            \* socket conn is open (every older socket is closed)
    connected,       \* WebSocketHandler.connected (asyncio.Event) is set
    subsSent,        \* the subscription types sent on socket conn, in order
    received,        \* messages read by recv so far
    mpc,             \* where main() is: "init" (gather of the initializers), "loop",
                     \* "closing" (inside _reconnect, awaiting ws.close()), "fatal"
    hlInit,          \* initialize_hyperliquid: "waiting" (in wait_for_connection), "woken", "done"
    aaveInit,        \* initialize_aave: "start", "done", "failed"
    is_hl_ready,     \* ProtocolDataManager.is_hl_ready is set
    is_aave_ready,   \* ProtocolDataManager.is_aave_ready is set
    wpc,             \* a caller of wait_for_ready: "idle", "waiting", "returned"
    hlWait,          \* its gathered is_hl_ready.wait(): "pending" or "done"
    aaveWait,        \* its gathered is_aave_ready.wait(): "pending" or "done"
    iterations,         \* history: iterations of main()'s `while True` begun
    failed_iterations,  \* history: those that ended in `except Exception`
    reconnect_calls,    \* history: calls of WebSocketHandler._reconnect
    \* ---- PositionCalculator / should_execute: the last call of a pure function ----
    calcCall,        \* the function called and its arguments ([fn |-> "none"] before any call)
    calcRet          \* what that call returned

amountVars == <<min_eth_amount, eth_received, eth_supplied>>

execVars == <<epc, retries, marginSeen, attempted, succeeded, result, invocations, reports,
              amountVars>>

monVars == <<latest_state, asset_contexts, positions, last_channel, invoked, dropped, handling>>

streamVars == <<running, cpc, conn, ws, open, connected, subsSent, received>>

readyVars == <<mpc, hlInit, aaveInit, is_hl_ready, is_aave_ready, wpc, hlWait, aaveWait>>

calcVars == <<calcCall, calcRet>>

loopVars == <<iterations, failed_iterations, reconnect_calls>>

vars == <<execVars, monVars, streamVars, readyVars, calcVars, loopVars>>

----------------------------------------------------------------------------
(* Bounds *)
MaxInvocations == 2
\* the longest assetPositions list of a snapshot
MaxPositions == 2
\* sockets the server accepts in a run
MaxConnections == 2
\* messages read from the feed in a run of the stream specification
MaxMessages == 2
\* iterations of main()'s refresh loop in a run
MaxIterations == 2

(* range(max_retries) of the step-4 polling loop *)
max_retries == 30

----------------------------------------------------------------------------
(* Step tags of the workflow, in the order of the source *)
SwapCollateral   == 1
SupplyCollateral == 2
BorrowAsset      == 3
BridgeTransfer   == 4
OpenHedge        == 5

\* `return False` / `except Exception: return False`: every failure returns the same value
ReturnFalse ==
    /\ epc' = "idle"
    /\ result' = "False"
    /\ reports' = reports \cup {<<"False", succeeded # {}>>}

\* `return True` after the order loop
ReturnTrue ==
    /\ epc' = "idle"
    /\ result' = "True"
    /\ reports' = reports \cup {<<"True", TRUE>>}

\* mutant: a call after a partial failure resumes behind the steps that succeeded
StartInvocationResuming ==
    /\ epc = "idle"
    /\ invocations < MaxInvocations
    /\ invocations' = invocations + 1
    /\ epc' = IF SupplyCollateral \in succeeded /\ result = "False" THEN "reserves" ELSE "price"
    /\ retries' = 0
    /\ marginSeen' = FALSE
    /\ attempted' = <<>>
    /\ succeeded' = {}
    /\ result' = "none"
    /\ min_eth_amount' = 0
    /\ eth_received' = 0
    /\ eth_supplied' = 0
    /\ UNCHANGED reports
    /\ UNCHANGED <<monVars, streamVars, readyVars, calcVars, loopVars>>

\* a call of execute_strategy: nothing is read from an earlier invocation
StartInvocation ==
    /\ epc = "idle"
    /\ invocations < MaxInvocations
    /\ invocations' = invocations + 1
    /\ epc' = "price"
    /\ retries' = 0
    /\ marginSeen' = FALSE
    /\ attempted' = <<>>
    /\ succeeded' = {}
    /\ result' = "none"
    /\ min_eth_amount' = 0
    /\ eth_received' = 0
    /\ eth_supplied' = 0
    /\ UNCHANGED reports
    /\ UNCHANGED <<monVars, streamVars, readyVars, calcVars, loopVars>>

\* usdc_to_swap = int(initial_usdc * swap_percentage * 10**6) with the defaults
\* INITIAL_USDC = 1000 and SWAP_PERCENTAGE = 0.1, in whole USDC
usdc_to_swap == 100

\* the prices the oracle reports, USD per ETH
EthPrices == {2000, 2500, 3000}

\* min_eth_amount = int(usdc_to_swap / 10**6 / eth_price * 0.995 * 10**18), here in
\* units of 1e-5 ETH; int() truncates
MinEthAmount(eth_price) == (usdc_to_swap * 995 * 100) \div eth_price

\* what a swap that passes the router's amountOutMinimum delivers above the minimum
SwapSurplus == {0, 1, 20}

\* get_eth_price(self.web3): an oracle read before any step; it may raise.
\* With the price, min_eth_amount is computed
GetEthPrice ==
    /\ epc = "price"
    /\ \/ /\ \E eth_price \in EthPrices : min_eth_amount' = MinEthAmount(eth_price)
          /\ epc' = "swap"
          /\ UNCHANGED <<result, reports>>
       \/ /\ ReturnFalse
          /\ UNCHANGED min_eth_amount
    /\ UNCHANGED <<retries, marginSeen, attempted, succeeded, invocations>>
    /\ UNCHANGED <<eth_received, eth_supplied>>
    /\ UNCHANGED <<monVars, streamVars, readyVars, calcVars, loopVars>>

\* step 1: await self.aave.swap_usdc_to_eth(amount, min_amount_out): returns a receipt
\* (the router delivered at least amountOutMinimum) or raises (a reverted swap
\* delivers nothing).  The receipt is only logged: the delivered amount is not read
Swap ==
    /\ epc = "swap"
    /\ attempted' = Append(attempted, SwapCollateral)
    /\ \/ /\ \E surplus \in SwapSurplus : eth_received' = min_eth_amount + surplus
          /\ succeeded' = succeeded \cup {SwapCollateral}
          /\ epc' = "supply"
          /\ UNCHANGED <<result, reports>>
       \/ /\ UNCHANGED <<succeeded, eth_received>>
          /\ ReturnFalse
    /\ UNCHANGED <<retries, marginSeen, invocations>>
    /\ UNCHANGED <<min_eth_amount, eth_supplied>>
    /\ UNCHANGED <<monVars, streamVars, readyVars, calcVars, loopVars>>

\* eth_to_supply = min_eth_amount
EthToSupply == min_eth_amount

\* mutant: a failed supply is tried again within the invocation
SupplyRetrying ==
    /\ epc = "supply"
    /\ attempted' = Append(attempted, SupplyCollateral)
    /\ eth_supplied' = EthToSupply
    /\ \/ /\ succeeded' = succeeded \cup {SupplyCollateral}
          /\ epc' = "reserves"
       \/ /\ UNCHANGED succeeded
          /\ epc' = "supply"
    /\ UNCHANGED <<result, reports, retries, marginSeen, invocations>>
    /\ UNCHANGED <<min_eth_amount, eth_received>>
    /\ UNCHANGED <<monVars, streamVars, readyVars, calcVars, loopVars>>

\* step 2: await self.aave.supply_eth(eth_to_supply)
Supply ==
    /\ epc = "supply"
    /\ attempted' = Append(attempted, SupplyCollateral)
    /\ eth_supplied' = EthToSupply
    /\ \E ok \in BOOLEAN :
         IF ok
         THEN /\ succeeded' = succeeded \cup {SupplyCollateral}
              /\ epc' = "reserves"
              /\ UNCHANGED <<result, reports>>
         ELSE /\ UNCHANGED succeeded
              /\ ReturnFalse
    /\ UNCHANGED <<retries, marginSeen, invocations>>
    /\ UNCHANGED <<min_eth_amount, eth_received>>
    /\ UNCHANGED <<monVars, streamVars, readyVars, calcVars, loopVars>>

\* step 3, first half: get_reserves_data() and the WETH lookup; a raise, or no WETH
\* reserve (float(None['ltv']) raises TypeError), ends the invocation
GetReserves ==
    /\ epc = "reserves"
    /\ \E outcome \in {"ok", "raise", "no_weth"} :
         IF outcome = "ok"
         THEN /\ epc' = "borrow"
              /\ UNCHANGED <<result, reports>>
         ELSE ReturnFalse
    /\ UNCHANGED <<retries, marginSeen, attempted, succeeded, invocations>>
    /\ UNCHANGED amountVars
    /\ UNCHANGED <<monVars, streamVars, readyVars, calcVars, loopVars>>

\* step 3: await self.aave.borrow_asset(...)
Borrow ==
    /\ epc = "borrow"
    /\ attempted' = Append(attempted, BorrowAsset)
    /\ \E ok \in BOOLEAN :
         IF ok
         THEN /\ succeeded' = succeeded \cup {BorrowAsset}
              /\ epc' = "deposit"
              /\ UNCHANGED <<result, reports>>
         ELSE /\ UNCHANGED succeeded
              /\ ReturnFalse
    /\ UNCHANGED <<retries, marginSeen, invocations>>
    /\ UNCHANGED amountVars
    /\ UNCHANGED <<monVars, streamVars, readyVars, calcVars, loopVars>>

\* step 4, transfer: deposit_usdc_to_hyperliquid and wait_for_transaction_receipt
Deposit ==
    /\ epc = "deposit"
    /\ attempted' = Append(attempted, BridgeTransfer)
    /\ \E ok \in BOOLEAN :
         IF ok
         THEN /\ epc' = "poll"
              /\ UNCHANGED <<result, reports>>
         ELSE ReturnFalse
    /\ UNCHANGED <<retries, marginSeen, succeeded, invocations>>
    /\ UNCHANGED amountVars
    /\ UNCHANGED <<monVars, streamVars, readyVars, calcVars, loopVars>>

\* where control goes when the for loop of step 4 is left, by break or by exhaustion:
\* the statement after the loop is step 5
AfterPollLoop == "meta"

\* mutant: when the retries are used up the loop starts over
PollRestarting ==
    /\ epc = "poll"
    /\ retries < max_retries
    /\ \E outcome \in {"sufficient", "insufficient", "raise"} :
         CASE outcome = "sufficient" ->
                /\ marginSeen' = TRUE
                /\ succeeded' = succeeded \cup {BridgeTransfer}
                /\ epc' = AfterPollLoop
                /\ UNCHANGED <<retries, result, reports>>
           [] outcome = "insufficient" ->
                /\ retries' = IF retries + 1 = max_retries THEN 0 ELSE retries + 1
                /\ epc' = "poll"
                /\ UNCHANGED <<marginSeen, succeeded, result, reports>>
           [] OTHER ->
                /\ ReturnFalse
                /\ UNCHANGED <<retries, marginSeen, succeeded>>
    /\ UNCHANGED <<attempted, invocations>>
    /\ UNCHANGED amountVars
    /\ UNCHANGED <<monVars, streamVars, readyVars, calcVars, loopVars>>

\* step 4, confirmation: one iteration of `for _ in range(max_retries)`:
\* user_state(...) may raise; accountValue >= borrow_amount breaks; otherwise sleep(1)
Poll ==
    /\ epc = "poll"
    /\ retries < max_retries
    /\ \E outcome \in {"sufficient", "insufficient", "raise"} :
         CASE outcome = "sufficient" ->
                /\ marginSeen' = TRUE
                /\ succeeded' = succeeded \cup {BridgeTransfer}
                /\ epc' = AfterPollLoop
                /\ UNCHANGED <<retries, result, reports>>
           [] outcome = "insufficient" ->
                /\ retries' = retries + 1
                /\ epc' = IF retries + 1 = max_retries THEN AfterPollLoop ELSE "poll"
                /\ UNCHANGED <<marginSeen, succeeded, result, reports>>
           [] OTHER ->
                /\ ReturnFalse
                /\ UNCHANGED <<retries, marginSeen, succeeded>>
    /\ UNCHANGED <<attempted, invocations>>
    /\ UNCHANGED amountVars
    /\ UNCHANGED <<monVars, streamVars, readyVars, calcVars, loopVars>>

\* step 5, first half: self.hyperliquid.info.meta() and sz_decimals["ETH"]
Meta ==
    /\ epc = "meta"
    /\ attempted' = Append(attempted, OpenHedge)
    /\ \E ok \in BOOLEAN :
         IF ok
         THEN /\ epc' = "order"
              /\ UNCHANGED <<result, reports>>
         ELSE ReturnFalse
    /\ UNCHANGED <<retries, marginSeen, succeeded, invocations>>
    /\ UNCHANGED amountVars
    /\ UNCHANGED <<monVars, streamVars, readyVars, calcVars, loopVars>>

\* mutant: a status entry that reports an error is only logged
MarketOpenIgnoringErrors ==
    /\ epc = "order"
    /\ \E outcome \in {"raise", "not_ok", "ok_filled", "ok_empty", "ok_error"} :
         CASE outcome \in {"ok_filled", "ok_empty"} ->
                /\ succeeded' = succeeded \cup {OpenHedge}
                /\ ReturnTrue
           [] outcome = "ok_error" ->
                /\ UNCHANGED succeeded
                /\ ReturnTrue
           [] OTHER ->
                /\ UNCHANGED succeeded
                /\ ReturnFalse
    /\ UNCHANGED <<retries, marginSeen, attempted, invocations>>
    /\ UNCHANGED amountVars
    /\ UNCHANGED <<monVars, streamVars, readyVars, calcVars, loopVars>>

\* step 5: market_open(...) and the inspection of its result: a raise, a falsy result
\* or a status other than 'ok' returns False; with status 'ok' the first status entry
\* without "filled" returns False, and a list of filled entries (or an empty list)
\* returns True
MarketOpen ==
    /\ epc = "order"
    /\ \E outcome \in {"raise", "not_ok", "ok_filled", "ok_empty", "ok_error"} :
         IF outcome \in {"ok_filled", "ok_empty"}
         THEN /\ succeeded' = succeeded \cup {OpenHedge}
              /\ ReturnTrue
         ELSE /\ UNCHANGED succeeded
              /\ ReturnFalse
    /\ UNCHANGED <<retries, marginSeen, attempted, invocations>>
    /\ UNCHANGED amountVars
    /\ UNCHANGED <<monVars, streamVars, readyVars, calcVars, loopVars>>


----------------------------------------------------------------------------
(* PositionMonitor (utils/monitoring.py) and the routing of inbound messages   *)
(* (utils/websocket_handler.py, main.py).  Feed numbers arrive as strings;     *)
(* float() is modelled by the tables below: sizes in tenths, funding rates in  *)
(* units of 1e-5, prices in whole units.                                       *)

\* the coins the account holds positions in
Coins == {"ETH", "BTC", "SOL"}
\* the coins the feed sends asset contexts for: two the filter of _handle_message lets
\* through and one it drops
ContextCoins == {"ETH", "BTC", "DOGE"}
\* the coins _handle_message lets through on the activeAssetCtx channel
AllowedCoins == {"ETH", "BTC", "SOL"}
\* add_custom_handler calls of initialize_hyperliquid, made before the first message
Subscriptions == {"OrderUpdates", "UserFills", "activeAssetCtx", "webData2"}

SziStrings == {"0.0", "1.5", "-2.0"}
\* float(pos.get("szi", 0))
ParseSzi(str) ==
    CASE str = "0.0"  -> 0
      [] str = "1.5"  -> 15
      [] str = "-2.0" -> -20

CtxPayloads == { [funding |-> "-0.00003", markPx |-> "3100.0"],
                 [funding |-> "0.00005",  markPx |-> "2900.0"] }
\* float(data["ctx"]["funding"])
ParseFunding(str) ==
    CASE str = "-0.00003" -> -3
      [] str = "0.00005"  -> 5
\* float(data["ctx"]["markPx"])
ParseMarkPx(str) ==
    CASE str = "3100.0" -> 3100
      [] str = "2900.0" -> 2900

\* one element of clearinghouseState.assetPositions: its coin, its szi string and the
\* required field it lacks ("none": all of positionValue, entryPx, maxLeverage,
\* liquidationPx, leverage, unrealizedPnl, cumFunding are present)
Entries ==
    { e \in [coin : Coins, szi : SziStrings, missing : {"none", "positionValue"}] :
        /\ e.missing # "none" => (e.coin = "BTC" /\ e.szi = "1.5")
        /\ e.coin = "BTC" => e.szi = "1.5"
        /\ e.coin = "SOL" => e.szi = "-2.0" }

\* the venue lists one position per coin
AssetPositionLists ==
    { l \in UNION { [1..n -> Entries] : n \in 0..MaxPositions } :
        \A i \in 1..Len(l) : \A j \in 1..Len(l) : i # j => l[i].coin # l[j].coin }

NoState == [ch |-> "none", assetPositions |-> <<>>]
\* webData2 payloads: without the clearinghouseState key, with a falsy one, with a full one
Snapshots ==
    { [ch |-> "absent", assetPositions |-> <<>>], [ch |-> "empty", assetPositions |-> <<>>] }
    \cup { [ch |-> "present", assetPositions |-> l] : l \in AssetPositionLists }

NoCtx == [funding |-> "", markPx |-> ""]
\* envelopes {channel, data} of the feed
AccountMessages == { [channel |-> "webData2", coin |-> "", ctx |-> NoCtx, state |-> st] :
                       st \in Snapshots }
AssetMessages   == { [channel |-> "activeAssetCtx", coin |-> c, ctx |-> x, state |-> NoState] :
                       c \in ContextCoins, x \in CtxPayloads }
OtherMessages   == { [channel |-> ch, coin |-> "", ctx |-> NoCtx, state |-> NoState] :
                       ch \in {"userFundings", "OrderUpdates", "subscriptionResponse"} }
Messages == AccountMessages \cup AssetMessages \cup OtherMessages

\* mutant: a coin without a cached context gets a nonzero default rate
get_funding_rate_nonzero_default(coin) ==
    IF coin \in DOMAIN asset_contexts THEN asset_contexts[coin].funding ELSE 1

\* PositionMonitor.get_funding_rate / get_mark_price: 0.0 when nothing is cached
get_funding_rate(coin) ==
    IF coin \in DOMAIN asset_contexts THEN asset_contexts[coin].funding ELSE 0
get_mark_price(coin) ==
    IF coin \in DOMAIN asset_contexts THEN asset_contexts[coin].markPx ELSE 0

\* mutant: the conversion to a percentage is left out
calculate_apy_fraction(rate, payments_per_year) == rate * payments_per_year

\* PositionCalculator.calculate_apy(rate, payments_per_year, compound=False):
\* annual_yield = rate * payments_per_year; return annual_yield * 100
calculate_apy(rate, payments_per_year) == rate * payments_per_year * 100

\* mutant: the raw rate is kept for longs too
AdjustedFundingRateUnsigned(size, current_funding_rate) == current_funding_rate

\* adjusted_funding_rate = -current_funding_rate if size > 0 else current_funding_rate
AdjustedFundingRate(size, current_funding_rate) ==
    IF size > 0 THEN -current_funding_rate ELSE current_funding_rate

\* mutant: closed positions are not skipped
SkipClosedNever(size) == FALSE

\* `if size == 0: continue`
SkipClosed(size) == size = 0

\* the PositionInfo stored for one entry
MakePositionInfo(pos) ==
    LET size == ParseSzi(pos.szi)
        adjusted == AdjustedFundingRate(size, get_funding_rate(pos.coin))
    IN  [ coin |-> pos.coin,
          size |-> size,
          current_funding_rate |-> adjusted,
          funding_apy |-> calculate_apy(adjusted, 8760),
          current_mark_price |-> get_mark_price(pos.coin) ]

\* the for loop of process_position_data from index i on, acc the positions stored so
\* far: a nonzero entry lacking a required field raises KeyError out of the loop
RECURSIVE ProcessFrom(_, _, _)
ProcessFrom(list, i, acc) ==
    IF i > Len(list) THEN [positions |-> acc, handling |-> "rebuilt"]
    ELSE LET pos == list[i] IN
         IF SkipClosed(ParseSzi(pos.szi)) THEN ProcessFrom(list, i + 1, acc)
         ELSE IF pos.missing # "none" THEN [positions |-> acc, handling |-> "raised"]
         ELSE ProcessFrom(list, i + 1, (pos.coin :> MakePositionInfo(pos)) @@ acc)

\* mutant: the loop patches the existing position set instead of a fresh one
process_position_data_patching(st) ==
    IF st.ch # "present" THEN [positions |-> positions, handling |-> "returned"]
    ELSE ProcessFrom(st.assetPositions, 1, positions)

\* process_position_data on a stored state st: early return on a falsy
\* clearinghouseState, else self.positions = {} and the loop
process_position_data(st) ==
    IF st.ch # "present" THEN [positions |-> positions, handling |-> "returned"]
    ELSE ProcessFrom(st.assetPositions, 1, <<>>)

\* ProtocolDataManager._handle_account_update(msg)
HandleAccountUpdate(msg) ==
    IF msg.state.ch = "absent"
    THEN /\ handling' = "skipped"
         /\ UNCHANGED <<latest_state, asset_contexts, positions>>
    ELSE LET r == process_position_data(msg.state) IN
         /\ latest_state' = msg.state
         /\ positions' = r.positions
         /\ handling' = r.handling
         /\ UNCHANGED asset_contexts

\* mutant: the update replaces the whole cache by the one entry
HandleAssetUpdateWholesale(msg) ==
    /\ asset_contexts' = (msg.coin :> [funding |-> ParseFunding(msg.ctx.funding),
                                       markPx  |-> ParseMarkPx(msg.ctx.markPx)])
    /\ handling' = "ok"
    /\ UNCHANGED <<latest_state, positions>>

\* ProtocolDataManager._handle_asset_update -> PositionMonitor.update_asset_context
HandleAssetUpdate(msg) ==
    /\ asset_contexts' = (msg.coin :> [funding |-> ParseFunding(msg.ctx.funding),
                                       markPx  |-> ParseMarkPx(msg.ctx.markPx)])
                         @@ asset_contexts
    /\ handling' = "ok"
    /\ UNCHANGED <<latest_state, positions>>

\* mutant: a channel without a handler of its own is given to the account handler
RouteWithDefault(msg) ==
    IF msg.channel = "activeAssetCtx"
    THEN IF msg.channel \in Subscriptions /\ msg.coin \in AllowedCoins
         THEN {msg.channel} ELSE {}
    ELSE IF msg.channel \in Subscriptions THEN {msg.channel} ELSE {"webData2"}

\* the handlers WebSocketHandler._handle_message calls for a message
Route(msg) ==
    IF msg.channel = "activeAssetCtx"
    THEN IF msg.channel \in Subscriptions /\ msg.coin \in AllowedCoins
         THEN {msg.channel} ELSE {}
    ELSE IF msg.channel \in Subscriptions THEN {msg.channel} ELSE {}

\* WebSocketHandler._handle_message(message), handler included
HandleMessage(msg) ==
    /\ last_channel' = msg.channel
    /\ invoked' = Route(msg)
    /\ CASE "webData2" \in Route(msg) -> HandleAccountUpdate(msg)
         [] "activeAssetCtx" \in Route(msg) -> HandleAssetUpdate(msg)
         [] OTHER -> /\ handling' = "ok"
                     /\ UNCHANGED <<latest_state, asset_contexts, positions>>
    /\ dropped' = DOMAIN positions \ DOMAIN positions'

InitMon ==
    /\ latest_state = NoState
    /\ asset_contexts = <<>>
    /\ positions = <<>>
    /\ last_channel = ""
    /\ invoked = {}
    /\ dropped = {}
    /\ handling = "ok"

\* an account snapshot arrives and is handled
AccountEvent ==
    /\ \E msg \in AccountMessages : HandleMessage(msg)
    /\ UNCHANGED <<execVars, streamVars, readyVars, calcVars, loopVars>>
\* an asset context arrives and is handled
AssetEvent ==
    /\ \E msg \in AssetMessages : HandleMessage(msg)
    /\ UNCHANGED <<execVars, streamVars, readyVars, calcVars, loopVars>>
\* a message of another channel arrives and is handled
OtherEvent ==
    /\ \E msg \in OtherMessages : HandleMessage(msg)
    /\ UNCHANGED <<execVars, streamVars, readyVars, calcVars, loopVars>>

NextMon ==
    \/ AccountEvent
    \/ AssetEvent
    \/ OtherEvent


----------------------------------------------------------------------------
(* WebSocketHandler (utils/websocket_handler.py), the readiness events of      *)
(* ProtocolDataManager and the recovery path of main() (main.py).              *)
(* One step is what a task does between two suspension points.                 *)

\* the subscriptions _subscribe_all sends, in its order
AllSubscriptions == <<"webData2", "userFundings", "activeAssetCtx">>

\* the messages the feed delivers in the stream specification: one asset context, one
\* snapshot the handler processes and one on which it raises (the handling of every
\* kind of message is the monitor specification's subject)
StreamMessages ==
    { m \in Messages :
        \/ m.channel = "activeAssetCtx" /\ m.coin = "ETH" /\ m.ctx.funding = "0.00005"
        \/ m.channel = "webData2" /\ m.state.ch = "present"
              /\ Len(m.state.assetPositions) = 1
              /\ m.state.assetPositions[1] \in
                    { [coin |-> "ETH", szi |-> "-2.0", missing |-> "none"],
                      [coin |-> "BTC", szi |-> "1.5", missing |-> "positionValue"] } }

\* main() has ended in `except Exception: Fatal error`: asyncio.run cancels every task
Alive == mpc # "fatal"

\* `while self.running:` of _connect evaluated: the next connection attempt, or the end
LoopHead == IF running THEN "connecting" ELSE "exited"

\* the ConnectionState of the design for each position of the _connect task
ConnectionState ==
    CASE cpc = "start"       -> "Disconnected"
      [] cpc = "connecting"  -> "Connecting"
      [] cpc \in {"sub", "recv"} -> "Connected"
      [] cpc = "sleep"       -> "Reconnecting"
      [] cpc = "exited"      -> "Stopped"

\* the task created in __init__ runs for the first time
TaskStart ==
    /\ Alive
    /\ cpc = "start"
    /\ cpc' = LoopHead
    /\ UNCHANGED <<running, conn, ws, open, connected, subsSent, received>>
    /\ UNCHANGED <<execVars, monVars, readyVars, calcVars, loopVars>>

\* where _connect goes once _subscribe_all has returned: the inner `while self.running`
AfterSubscribe == IF running THEN "recv" ELSE "exited"

\* websockets.connect succeeds: self.ws = websocket, connected.set() (waking the
\* waiter of wait_for_connection), and _subscribe_all runs up to its first send
ConnectOk ==
    /\ Alive
    /\ cpc = "connecting"
    /\ conn < MaxConnections
    /\ conn' = conn + 1
    /\ ws' = conn + 1
    /\ open' = TRUE
    /\ connected' = TRUE
    /\ hlInit' = IF hlInit = "waiting" THEN "woken" ELSE hlInit
    /\ subsSent' = <<AllSubscriptions[1]>>
    /\ cpc' = "sub"
    /\ UNCHANGED <<running, received>>
    /\ UNCHANGED <<mpc, aaveInit, is_hl_ready, is_aave_ready, wpc, hlWait, aaveWait>>
    /\ UNCHANGED <<execVars, monVars, calcVars, loopVars>>

\* mutant: the exception of a failed connect leaves the task
ConnectFailFatal ==
    /\ Alive
    /\ cpc = "connecting"
    /\ connected' = FALSE
    /\ cpc' = "exited"
    /\ UNCHANGED <<running, conn, ws, open, subsSent, received>>
    /\ UNCHANGED <<execVars, monVars, readyVars, calcVars, loopVars>>

\* websockets.connect raises: except clause, connected.clear(), sleep(5)
ConnectFail ==
    /\ Alive
    /\ cpc = "connecting"
    /\ connected' = FALSE
    /\ cpc' = "sleep"
    /\ UNCHANGED <<running, conn, ws, open, subsSent, received>>
    /\ UNCHANGED <<execVars, monVars, readyVars, calcVars, loopVars>>

\* the next `await self.ws.send(...)` of _subscribe_all.  self.ws is read anew:
\* None raises AttributeError, a closed socket raises ConnectionClosed; both leave
\* the `async with` (closing the socket) into the except clause
SubscribeSend ==
    /\ Alive
    /\ cpc = "sub"
    /\ IF ws = 0 \/ ~open
       THEN /\ open' = FALSE
            /\ connected' = FALSE
            /\ cpc' = "sleep"
            /\ UNCHANGED subsSent
       ELSE /\ subsSent' = Append(subsSent, AllSubscriptions[Len(subsSent) + 1])
            /\ IF Len(subsSent) + 1 = Len(AllSubscriptions)
               THEN /\ cpc' = AfterSubscribe
                    /\ open' = (AfterSubscribe = "recv")
               ELSE /\ cpc' = "sub"
                    /\ UNCHANGED open
            /\ UNCHANGED connected
    /\ UNCHANGED <<running, conn, ws, received>>
    /\ UNCHANGED <<execVars, monVars, readyVars, calcVars, loopVars>>

\* where _connect goes after a message was handled: the inner `while self.running`
AfterMessage == IF running THEN "recv" ELSE "exited"

\* recv returns a message: json.loads, _handle_message, handler
Receive ==
    /\ Alive
    /\ cpc = "recv"
    /\ open
    /\ received < MaxMessages
    /\ \E msg \in StreamMessages : HandleMessage(msg)
    /\ received' = received + 1
    /\ cpc' = AfterMessage
    /\ open' = (AfterMessage = "recv")
    /\ UNCHANGED <<running, conn, ws, connected, subsSent>>
    /\ UNCHANGED <<execVars, readyVars, calcVars, loopVars>>

\* mutant: the exception of json.loads leaves the receive loop and the connection
ReceiveUndecodableBreaks ==
    /\ Alive
    /\ cpc = "recv"
    /\ open
    /\ received < MaxMessages
    /\ received' = received + 1
    /\ cpc' = "sleep"
    /\ open' = FALSE
    /\ connected' = FALSE
    /\ UNCHANGED <<running, conn, ws, subsSent>>
    /\ UNCHANGED <<execVars, monVars, readyVars, calcVars, loopVars>>

\* recv returns text json.loads rejects: `except Exception` logs, the loop goes on
ReceiveUndecodable ==
    /\ Alive
    /\ cpc = "recv"
    /\ open
    /\ received < MaxMessages
    /\ received' = received + 1
    /\ cpc' = AfterMessage
    /\ open' = (AfterMessage = "recv")
    /\ UNCHANGED <<running, conn, ws, connected, subsSent>>
    /\ UNCHANGED <<execVars, monVars, readyVars, calcVars, loopVars>>

\* recv raises ConnectionClosed: break, the `async with` is left without an
\* exception, and the outer loop goes round: no clear(), no sleep
ReceiveClosed ==
    /\ Alive
    /\ cpc = "recv"
    /\ ~open
    /\ cpc' = LoopHead
    /\ UNCHANGED <<running, conn, ws, open, connected, subsSent, received>>
    /\ UNCHANGED <<execVars, monVars, readyVars, calcVars, loopVars>>

\* the peer or the network closes the socket
SocketDrop ==
    /\ Alive
    /\ cpc \in {"sub", "recv"}
    /\ open
    /\ open' = FALSE
    /\ UNCHANGED <<running, cpc, conn, ws, connected, subsSent, received>>
    /\ UNCHANGED <<execVars, monVars, readyVars, calcVars, loopVars>>

\* sleep(5) of the except clause is over
BackoffElapsed ==
    /\ Alive
    /\ cpc = "sleep"
    /\ cpc' = LoopHead
    /\ UNCHANGED <<running, conn, ws, open, connected, subsSent, received>>
    /\ UNCHANGED <<execVars, monVars, readyVars, calcVars, loopVars>>

\* WebSocketHandler.__del__: self.running = False, and nothing else
Stop ==
    /\ Alive
    /\ running
    /\ running' = FALSE
    /\ UNCHANGED <<cpc, conn, ws, open, connected, subsSent, received>>
    /\ UNCHANGED <<execVars, monVars, readyVars, calcVars, loopVars>>

\* mutant: initialize_hyperliquid does not wait for the connected event
HlInitResumeUnwoken ==
    /\ Alive
    /\ hlInit \in {"waiting", "woken"}
    /\ hlInit' = "done"
    /\ is_hl_ready' = TRUE
    /\ UNCHANGED <<mpc, aaveInit, is_aave_ready, wpc, hlWait, aaveWait>>
    /\ UNCHANGED <<execVars, monVars, streamVars, calcVars, loopVars>>

\* initialize_hyperliquid resumes from wait_for_connection: is_hl_ready.set()
HlInitResume ==
    /\ Alive
    /\ hlInit = "woken"
    /\ hlInit' = "done"
    /\ is_hl_ready' = TRUE
    /\ UNCHANGED <<mpc, aaveInit, is_aave_ready, wpc, hlWait, aaveWait>>
    /\ UNCHANGED <<execVars, monVars, streamVars, calcVars, loopVars>>

\* initialize_aave: the configuration is complete, is_aave_ready.set()
AaveInitOk ==
    /\ Alive
    /\ aaveInit = "start"
    /\ aaveInit' = "done"
    /\ is_aave_ready' = TRUE
    /\ UNCHANGED <<mpc, hlInit, is_hl_ready, wpc, hlWait, aaveWait>>
    /\ UNCHANGED <<execVars, monVars, streamVars, calcVars, loopVars>>

\* initialize_aave raises ValueError: main()'s gather raises, `Fatal error`
AaveInitFail ==
    /\ Alive
    /\ aaveInit = "start"
    /\ aaveInit' = "failed"
    /\ mpc' = "fatal"
    /\ UNCHANGED <<hlInit, is_hl_ready, is_aave_ready, wpc, hlWait, aaveWait>>
    /\ UNCHANGED <<execVars, monVars, streamVars, calcVars, loopVars>>

\* main(): both initializers returned, wait_for_ready passes, the loop starts
MainLoopStart ==
    /\ mpc = "init"
    /\ hlInit = "done"
    /\ aaveInit = "done"
    /\ mpc' = "loop"
    /\ UNCHANGED <<hlInit, aaveInit, is_hl_ready, is_aave_ready, wpc, hlWait, aaveWait>>
    /\ UNCHANGED <<execVars, monVars, streamVars, calcVars, loopVars>>

\* an iteration of main()'s loop runs to its sleep(1): nothing of the stream client
\* is touched
IterationOk ==
    /\ mpc = "loop"
    /\ iterations < MaxIterations
    /\ iterations' = iterations + 1
    /\ UNCHANGED <<failed_iterations, reconnect_calls>>
    /\ UNCHANGED <<execVars, monVars, streamVars, readyVars, calcVars>>

\* mutant: the except clause only logs
IterationFailsLogOnly ==
    /\ mpc = "loop"
    /\ iterations < MaxIterations
    /\ iterations' = iterations + 1
    /\ failed_iterations' = failed_iterations + 1
    /\ UNCHANGED reconnect_calls
    /\ UNCHANGED <<execVars, monVars, streamVars, readyVars, calcVars>>

\* an iteration of main()'s loop raises: `except Exception` logs and awaits
\* _reconnect, which runs to its first suspension: connected.clear(), then
\* ws.close() on the socket self.ws names (or, with self.ws None, straight to
\* self.ws = None and back into the loop)
IterationFails ==
    /\ mpc = "loop"
    /\ iterations < MaxIterations
    /\ iterations' = iterations + 1
    /\ failed_iterations' = failed_iterations + 1
    /\ reconnect_calls' = reconnect_calls + 1
    /\ connected' = FALSE
    /\ IF ws # 0
       THEN /\ mpc' = "closing"
            /\ open' = IF ws = conn THEN FALSE ELSE open
       ELSE /\ mpc' = "loop"
            /\ UNCHANGED open
    /\ UNCHANGED <<running, cpc, conn, ws, subsSent, received>>
    /\ UNCHANGED <<hlInit, aaveInit, is_hl_ready, is_aave_ready, wpc, hlWait, aaveWait>>
    /\ UNCHANGED <<execVars, monVars, calcVars>>

\* mutant: _reconnect also clears the stream-ready signal
ReconnectReturnsClearingReady ==
    /\ mpc = "closing"
    /\ ws' = 0
    /\ mpc' = "loop"
    /\ is_hl_ready' = FALSE
    /\ UNCHANGED <<running, cpc, conn, open, connected, subsSent, received>>
    /\ UNCHANGED <<hlInit, aaveInit, is_aave_ready, wpc, hlWait, aaveWait>>
    /\ UNCHANGED <<execVars, monVars, calcVars, loopVars>>

\* ws.close() returns (or raised): self.ws = None, back in the loop
ReconnectReturns ==
    /\ mpc = "closing"
    /\ ws' = 0
    /\ mpc' = "loop"
    /\ UNCHANGED <<running, cpc, conn, open, connected, subsSent, received>>
    /\ UNCHANGED <<hlInit, aaveInit, is_hl_ready, is_aave_ready, wpc, hlWait, aaveWait>>
    /\ UNCHANGED <<execVars, monVars, calcVars, loopVars>>

\* a caller awaits wait_for_ready(): gather starts both Event.wait()s, and a wait
\* on an event that is already set is done at once
WaitForReadyCall ==
    /\ Alive
    /\ wpc \in {"idle", "returned"}
    /\ wpc' = "waiting"
    /\ hlWait' = IF is_hl_ready THEN "done" ELSE "pending"
    /\ aaveWait' = IF is_aave_ready THEN "done" ELSE "pending"
    /\ UNCHANGED <<mpc, hlInit, aaveInit, is_hl_ready, is_aave_ready>>
    /\ UNCHANGED <<execVars, monVars, streamVars, calcVars, loopVars>>

\* the gathered is_hl_ready.wait() completes once the event is set
WaitHlDone ==
    /\ Alive
    /\ wpc = "waiting"
    /\ hlWait = "pending"
    /\ is_hl_ready
    /\ hlWait' = "done"
    /\ UNCHANGED <<mpc, hlInit, aaveInit, is_hl_ready, is_aave_ready, wpc, aaveWait>>
    /\ UNCHANGED <<execVars, monVars, streamVars, calcVars, loopVars>>

\* the gathered is_aave_ready.wait() completes once the event is set
WaitAaveDone ==
    /\ Alive
    /\ wpc = "waiting"
    /\ aaveWait = "pending"
    /\ is_aave_ready
    /\ aaveWait' = "done"
    /\ UNCHANGED <<mpc, hlInit, aaveInit, is_hl_ready, is_aave_ready, wpc, hlWait>>
    /\ UNCHANGED <<execVars, monVars, streamVars, calcVars, loopVars>>

\* mutant: gather returns as soon as one of the two waits is done
GatherDoneAny == hlWait = "done" \/ aaveWait = "done"

\* asyncio.gather(...) is done when both waits are
GatherDone == hlWait = "done" /\ aaveWait = "done"

\* wait_for_ready returns to its caller
WaitForReadyReturn ==
    /\ Alive
    /\ wpc = "waiting"
    /\ GatherDone
    /\ wpc' = "returned"
    /\ UNCHANGED <<mpc, hlInit, aaveInit, is_hl_ready, is_aave_ready, hlWait, aaveWait>>
    /\ UNCHANGED <<execVars, monVars, streamVars, calcVars, loopVars>>

InitStream ==
    /\ running = TRUE
    /\ cpc = "start"
    /\ conn = 0
    /\ ws = 0
    /\ open = FALSE
    /\ connected = FALSE
    /\ subsSent = <<>>
    /\ received = 0
    /\ mpc = "init"
    /\ hlInit = "waiting"
    /\ aaveInit = "start"
    /\ is_hl_ready = FALSE
    /\ is_aave_ready = FALSE
    /\ wpc = "idle"
    /\ hlWait = "pending"
    /\ aaveWait = "pending"
    /\ iterations = 0
    /\ failed_iterations = 0
    /\ reconnect_calls = 0

NextStream ==
    \/ TaskStart
    \/ ConnectOk
    \/ ConnectFail
    \/ SubscribeSend
    \/ Receive
    \/ ReceiveUndecodable
    \/ ReceiveClosed
    \/ SocketDrop
    \/ BackoffElapsed
    \/ Stop
    \/ HlInitResume
    \/ AaveInitOk
    \/ AaveInitFail
    \/ MainLoopStart
    \/ IterationOk
    \/ IterationFails
    \/ ReconnectReturns
    \/ WaitForReadyCall
    \/ WaitHlDone
    \/ WaitAaveDone
    \/ WaitForReadyReturn

----------------------------------------------------------------------------
(* PositionCalculator (utils/calculations.py) and                              *)
(* DeltaNeutralExecutor.should_execute: pure functions.  Python floats are     *)
(* modelled by exact fractions [num, den] with den > 0.                        *)

\* fractions are kept in lowest terms, so that equal values are equal records
RECURSIVE GCD(_, _)
GCD(a, b) == IF b = 0 THEN a ELSE GCD(b, a % b)
Abs(i) == IF i < 0 THEN -i ELSE i
Frac(n, d) == LET g == GCD(Abs(n), d) IN [num |-> n \div g, den |-> d \div g]

FromInt(i) == [num |-> i, den |-> 1]
\* a * b
FracMul(a, b) == Frac(a.num * b.num, a.den * b.den)
\* a - b
FracSub(a, b) == Frac(a.num * b.den - b.num * a.den, a.den * b.den)
\* a / b for b > 0
FracDiv(a, b) == Frac(a.num * b.den, a.den * b.num)
\* a < b
FracLess(a, b) == a.num * b.den < b.num * a.den
\* float('inf')
Inf == [num |-> 1, den |-> 0]

\* calculate_maintenance_margin(max_leverage) = (1 / max_leverage) * 0.5
calculate_maintenance_margin(max_leverage) ==
    FracMul(Frac(1, max_leverage), Frac(1, 2))

\* calculate_liquidation_threshold = maintenance_margin * total_open_position_usd
calculate_liquidation_threshold(total_open_position_usd, max_leverage) ==
    FracMul(calculate_maintenance_margin(max_leverage), FromInt(total_open_position_usd))

\* mutant: a buffer equal to the warning threshold already counts as near
IsNearInclusive(buffer_percentage, warning_threshold_pct) ==
    buffer_percentage # Inf /\ ~FracLess(FromInt(warning_threshold_pct), buffer_percentage)

\* 'is_near': buffer_percentage < warning_threshold_pct (inf < x is False)
IsNear(buffer_percentage, warning_threshold_pct) ==
    buffer_percentage # Inf /\ FracLess(buffer_percentage, FromInt(warning_threshold_pct))

\* PositionCalculator.is_near_liquidation(account_value, total_open_position_usd,
\* max_leverage, warning_threshold_pct)
is_near_liquidation(account_value, total_open_position_usd, max_leverage, warning_threshold_pct) ==
    LET maintenance_margin == calculate_maintenance_margin(max_leverage)
        liquidation_threshold ==
            calculate_liquidation_threshold(total_open_position_usd, max_leverage)
        margin_buffer == FracSub(FromInt(account_value), liquidation_threshold)
        buffer_percentage ==
            IF liquidation_threshold.num > 0
            THEN FracMul(FracDiv(margin_buffer, liquidation_threshold), FromInt(100))
            ELSE Inf
    IN  [ is_near |-> IsNear(buffer_percentage, warning_threshold_pct),
          maintenance_margin |-> maintenance_margin,
          liquidation_threshold |-> liquidation_threshold,
          margin_buffer |-> margin_buffer,
          buffer_percentage |-> buffer_percentage ]

\* mutant: the comparison admits equality
should_execute_inclusive(simulated_apy, min_profitability) ==
    simulated_apy >= min_profitability * 100

\* DeltaNeutralExecutor.should_execute(simulated_apy) with self.min_profitability
should_execute(simulated_apy, min_profitability) ==
    simulated_apy > min_profitability * 100

\* periodic rates in units of 1e-5, as ParseFunding yields them and as negated for longs
PeriodicRates == {-5, -3, 0, 3, 5}
\* payments_per_year: hourly (the callers' 8760), daily, and the edge values
PaymentCounts == {0, 1, 365, 8760}

\* account values and open position values in USD, venue leverage caps, warning buffers
AccountValues == {0, 50, 100, 110, 111, 200}
OpenPositionValues == {0, 1000, 2000}
LeverageCaps == {1, 5, 50}
WarningThresholds == {0, 10, 25}

\* simulated APYs in percent and MIN_GLOBAL_PROFITABILITY settings
SimulatedApys == {0, 150, 199, 200, 201, 250}
MinProfitabilities == {0, 1, 2}

\* a caller evaluates calculate_apy(rate, payments_per_year, compound=False), the only
\* form in which the repository calls it
CallCalculateApy ==
    /\ \E rate \in PeriodicRates, payments_per_year \in PaymentCounts :
          /\ calcCall' = [fn |-> "calculate_apy", rate |-> rate,
                          payments_per_year |-> payments_per_year]
          /\ calcRet' = calculate_apy(rate, payments_per_year)
    /\ UNCHANGED <<execVars, monVars, streamVars, readyVars, loopVars>>

\* a caller evaluates is_near_liquidation
CallIsNearLiquidation ==
    /\ \E account_value \in AccountValues, total_open_position_usd \in OpenPositionValues,
          max_leverage \in LeverageCaps, warning_threshold_pct \in WarningThresholds :
          /\ calcCall' = [fn |-> "is_near_liquidation", account_value |-> account_value,
                          total_open_position_usd |-> total_open_position_usd,
                          max_leverage |-> max_leverage,
                          warning_threshold_pct |-> warning_threshold_pct]
          /\ calcRet' = is_near_liquidation(account_value, total_open_position_usd,
                                            max_leverage, warning_threshold_pct)
    /\ UNCHANGED <<execVars, monVars, streamVars, readyVars, loopVars>>

\* a caller awaits should_execute: one log line and the comparison
CallShouldExecute ==
    /\ \E simulated_apy \in SimulatedApys, min_profitability \in MinProfitabilities :
          /\ calcCall' = [fn |-> "should_execute", simulated_apy |-> simulated_apy,
                          min_profitability |-> min_profitability]
          /\ calcRet' = should_execute(simulated_apy, min_profitability)
    /\ UNCHANGED <<execVars, monVars, streamVars, readyVars, loopVars>>

NextCalc ==
    \/ CallCalculateApy
    \/ CallIsNearLiquidation
    \/ CallShouldExecute

InitExec ==
    /\ InitMon
    /\ InitStream
    /\ epc = "idle"
    /\ retries = 0
    /\ marginSeen = FALSE
    /\ attempted = <<>>
    /\ succeeded = {}
    /\ result = "none"
    /\ invocations = 0
    /\ reports = {}
    /\ min_eth_amount = 0
    /\ eth_received = 0
    /\ eth_supplied = 0
    /\ calcCall = [fn |-> "none"]
    /\ calcRet = "none"

NextExec ==
    \/ StartInvocation
    \/ GetEthPrice
    \/ Swap
    \/ Supply
    \/ GetReserves
    \/ Borrow
    \/ Deposit
    \/ Poll
    \/ Meta
    \/ MarketOpen

SpecExec == InitExec /\ [][NextExec]_vars

\* the coroutine is resumed after each sleep(1) of the polling loop
FairExec == WF_vars(Poll)

SpecExecFair == InitExec /\ [][NextExec]_vars /\ FairExec

InitMonitor == InitExec

SpecMonitor == InitMonitor /\ [][NextMon]_vars

InitAll == InitExec

SpecStream == InitAll /\ [][NextStream]_vars

\* the event loop runs every task that can run, a sleep(5) ends, and connection
\* attempts that keep being made succeed in the end (while the server accepts)
FairStream ==
    /\ WF_vars(TaskStart)
    /\ WF_vars(SubscribeSend)
    /\ WF_vars(ReceiveClosed)
    /\ WF_vars(BackoffElapsed)
    /\ SF_vars(ConnectOk)

SpecStreamFair == InitAll /\ [][NextStream]_vars /\ FairStream

InitCalc == InitExec

SpecCalc == InitCalc /\ [][NextCalc]_vars

----------------------------------------------------------------------------
(* Claims about execute_strategy *)

Steps(seq) == {seq[i] : i \in 1..Len(seq)}

\* C1: when every one of the max_retries polls of step 4 has completed without the
\* margin being observed, step 5 is never attempted in that invocation and the
\* invocation ends returning failure with step 4 its last attempted step.
C1_ExhaustedPollingFailsAtStep4 ==
    (retries = max_retries /\ ~marginSeen) =>
        /\ OpenHedge \notin Steps(attempted)
        /\ (epc = "idle" => result = "False" /\ attempted[Len(attempted)] = BridgeTransfer)

\* C2: the outcome handed to the caller of a failed invocation tells whether some
\* step had already succeeded: two failed invocations with the same outcome agree
\* on whether any step had succeeded.
C2_FailureTellsPartialExecution ==
    \A r1 \in reports : \A r2 \in reports :
        (r1[1] = "False" /\ r2[1] = r1[1]) => r1[2] = r2[2]

\* C3: the steps are attempted in the order 1,2,3,4,5, step k+1 only after step k
\* succeeded (operation returned and confirmation held), and an invocation that
\* returned failure attempted nothing after its failed step.
C3_StepsInOrderEachAfterSuccess ==
    /\ \A i \in 1..Len(attempted) : attempted[i] = i
    /\ \A i \in 2..Len(attempted) : attempted[i-1] \in succeeded
    /\ (result = "False" => Cardinality(Steps(attempted) \ succeeded) <= 1)

----------------------------------------------------------------------------
(* Claims about PositionMonitor *)

\* the entries of the stored snapshot that have a nonzero size
OpenEntries(st) ==
    { i \in 1..Len(st.assetPositions) : ParseSzi(st.assetPositions[i].szi) # 0 }

\* C4: after a snapshot is processed, every nonzero-size position of it that has all
\* its required fields is tracked, wherever in the list a position lacking a field
\* stands, and the processing of the snapshot did not end in an error.
C4_OnlyIncompletePositionSkipped ==
    latest_state.ch = "present" =>
        /\ \A i \in OpenEntries(latest_state) :
              latest_state.assetPositions[i].missing = "none" =>
                  latest_state.assetPositions[i].coin \in DOMAIN positions
        /\ handling # "raised"

\* C9: no tracked PositionInfo has signed size 0.
C9_NoZeroSizeTracked ==
    \A c \in DOMAIN positions : positions[c].size # 0

\* C9 witness: a snapshot holding a closed (size 0) entry and an open one was
\* processed; the open one is tracked, the closed coin is not.
C9_Witness ==
    /\ latest_state.ch = "present"
    /\ \E i \in 1..Len(latest_state.assetPositions) :
          /\ ParseSzi(latest_state.assetPositions[i].szi) = 0
          /\ latest_state.assetPositions[i].coin \notin DOMAIN positions
    /\ positions # <<>>

\* C10: funding-sign law.  Every PositionInfo a snapshot step stores has
\* currentRate = -raw when its size is > 0 and currentRate = raw when its size
\* is < 0, raw being the rate cached for its coin when the snapshot is processed.
C10_FundingSignLaw ==
    [][ handling' \in {"rebuilt", "raised"} =>
          \A c \in DOMAIN positions' :
             /\ positions'[c].size > 0 =>
                   positions'[c].current_funding_rate = -get_funding_rate(c)
             /\ positions'[c].size < 0 =>
                   positions'[c].current_funding_rate = get_funding_rate(c) ]_vars

\* C10 witness: a long and a short are tracked whose coin had a nonzero cached rate
C10_Witness ==
    /\ \E c \in DOMAIN positions :
          positions[c].size > 0 /\ positions[c].current_funding_rate # 0
    /\ \E c \in DOMAIN positions :
          positions[c].size < 0 /\ positions[c].current_funding_rate # 0

----------------------------------------------------------------------------
(* Claims about the stream client and the readiness events *)

\* C5: whenever the receive loop of a socket is entered the three subscriptions
\* have been sent on it exactly once, in full; and a socket closure takes the
\* client from Connected to Reconnecting and from there to Connecting.
C5_FullSetOncePerConnection ==
    [][ /\ cpc' = "recv" => subsSent' = AllSubscriptions
        /\ (ConnectionState = "Connected" /\ ConnectionState' \notin {"Connected", "Stopped"})
              => ConnectionState' = "Reconnecting"
        /\ (ConnectionState = "Reconnecting" /\ ConnectionState' # "Reconnecting")
              => ConnectionState' \in {"Connecting", "Stopped"} ]_vars

\* C6: while the socket is gone and no new connection is established (Connecting or
\* Reconnecting) the connected event is clear, so wait_for_connection suspends.
C6_EventClearWhileNotConnected ==
    ConnectionState \in {"Connecting", "Reconnecting"} => ~connected

\* C7: the task ends only through a stop; a stop closes the socket under a pending
\* receive; and once stopped no message is dispatched, no connection attempt is
\* started and no subscription is sent.
C7_StopIsFinal ==
    [][ /\ cpc' = "exited" => ~running'
        /\ (~running /\ cpc = "recv") => ~open
        /\ ~running => /\ received' = received
                       /\ cpc' = "connecting" => cpc = "connecting"
                       /\ subsSent' = subsSent ]_vars

\* C8: wait_for_ready has returned only in states where both is_hl_ready and
\* is_aave_ready are set.
C8_ReturnsOnlyWhenBothReady ==
    wpc = "returned" => (is_hl_ready /\ is_aave_ready)

\* C8 witness: a call that had to wait has returned
C8_Witness ==
    /\ wpc = "returned"
    /\ is_hl_ready
    /\ is_aave_ready
    /\ mpc = "init"

----------------------------------------------------------------------------
(* Claims about the pure functions *)

\* C11 (as stated): for all periodic rates r and payment counts n,
\* calculate_apy(r, n, compound=False) returns exactly r*n.
C11_SimpleAnnualizationIsRateTimesCount ==
    calcCall.fn = "calculate_apy" =>
        calcRet = calcCall.rate * calcCall.payments_per_year

\* C11 (amended): for all periodic rates r and payment counts n,
\* calculate_apy(r, n, compound=False) returns exactly r*n*100, the simple
\* annualization expressed as a percentage.
C11_SimpleAnnualizationIsPercentage ==
    calcCall.fn = "calculate_apy" =>
        calcRet = calcCall.rate * calcCall.payments_per_year * 100

\* C11 witness: the hourly rate 0.00005 annualized over 8760 payments is 43.8 (percent)
C11_Witness ==
    /\ calcCall.fn = "calculate_apy"
    /\ calcCall.rate = 5
    /\ calcCall.payments_per_year = 8760
    /\ calcRet = 4380000

\* C12: is_near_liquidation returns is_near = true iff the returned
\* buffer_percentage is < warning_threshold_pct, where buffer_percentage is
\* (account_value - liquidation_threshold)/liquidation_threshold*100 when
\* liquidation_threshold > 0 and +infinity otherwise; with a zero liquidation
\* threshold the position is never reported near liquidation.
C12_NearIffBufferBelowThreshold ==
    calcCall.fn = "is_near_liquidation" =>
        LET av == calcCall.account_value
            total == calcCall.total_open_position_usd
            lev == calcCall.max_leverage
            \* liquidation_threshold = total / (2 * lev)
            expected == IF total > 0
                        THEN Frac((2 * lev * av - total) * 100, total)
                        ELSE Inf
        IN  /\ calcRet.liquidation_threshold = Frac(total, 2 * lev)
            /\ calcRet.buffer_percentage = expected
            /\ calcRet.is_near <=>
                  /\ expected # Inf
                  /\ expected.num < calcCall.warning_threshold_pct * expected.den
            /\ total = 0 => ~calcRet.is_near

\* C12 witness: an account whose buffer equals the warning threshold exactly
\* (110 USD against a threshold of 100 USD, warning at 10 percent) is not near
C12_Witness ==
    /\ calcCall.fn = "is_near_liquidation"
    /\ calcCall.account_value = 110
    /\ calcCall.total_open_position_usd = 1000
    /\ calcCall.max_leverage = 5
    /\ calcCall.warning_threshold_pct = 10
    /\ ~calcRet.is_near

\* C13: should_execute returns true exactly when simulatedAPY > minProfitability*100
\* (equality returns false) and changes no state; with minProfitability = 2 it is
\* false for 150 and true for 250.
C13_ShouldExecuteStrictAndPure ==
    [][ calcCall'.fn = "should_execute" =>
          LET apy == calcCall'.simulated_apy
              mp == calcCall'.min_profitability
          IN  /\ calcRet' = (apy > mp * 100)
              /\ apy = mp * 100 => calcRet' = FALSE
              /\ (mp = 2 /\ apy = 150) => calcRet' = FALSE
              /\ (mp = 2 /\ apy = 250) => calcRet' = TRUE
              /\ UNCHANGED <<execVars, monVars, streamVars, readyVars, loopVars>> ]_vars

\* C13 witness: the equality case, 200 against minProfitability 2
C13_Witness ==
    /\ calcCall.fn = "should_execute"
    /\ calcCall.simulated_apy = 200
    /\ calcCall.min_profitability = 2
    /\ calcRet = FALSE

----------------------------------------------------------------------------
(* Claims about message routing *)

\* C14: each message handled by _handle_message invokes at most one registered
\* handler, the one registered under the message's channel; a message whose channel
\* has no registered handler (userFundings) invokes no handler, raises no error and
\* leaves the asset-context cache and the position set unchanged.
C14_AtMostOneHandlerPerMessage ==
    [][ /\ Cardinality(invoked') <= 1
        /\ invoked' \subseteq ({last_channel'} \cap Subscriptions)
        /\ last_channel' \notin Subscriptions =>
              /\ invoked' = {}
              /\ handling' = "ok"
              /\ asset_contexts' = asset_contexts
              /\ positions' = positions ]_vars

\* C14 witness: a userFundings message was handled while a context was cached and a
\* position tracked; no handler ran
C14_Witness ==
    /\ last_channel = "userFundings"
    /\ invoked = {}
    /\ handling = "ok"
    /\ asset_contexts # <<>>
    /\ positions # <<>>

\* C20: the position set is rebuilt from scratch on every account snapshot: after
\* process_position_data handled a well-formed snapshot S, the tracked coins are
\* exactly the coins with nonzero size in S (a coin tracked before that is absent
\* from S, or has size 0 in S, is no longer tracked), and every entry is derived
\* from S and the current context cache.
C20_RebuiltFromSnapshot ==
    handling = "rebuilt" =>
        LET S == latest_state.assetPositions IN
        /\ DOMAIN positions = { S[i].coin : i \in OpenEntries(latest_state) }
        /\ \A c \in DOMAIN positions :
              \E i \in OpenEntries(latest_state) :
                  S[i].coin = c /\ positions[c] = MakePositionInfo(S[i])

\* C20 witness: a snapshot was processed to its end, one coin it lists open is
\* tracked and a coin tracked before it is no longer
C20_Witness ==
    /\ handling = "rebuilt"
    /\ dropped # {}
    /\ positions # <<>>
    /\ dropped \cap DOMAIN positions = {}
    /\ \E i \in 1..Len(latest_state.assetPositions) :
          /\ latest_state.assetPositions[i].coin \in dropped
          /\ ParseSzi(latest_state.assetPositions[i].szi) = 0

----------------------------------------------------------------------------
(* Claims about reconnection and the refresh loop *)

\* C15: connection failures are never fatal to the stream client: while running is
\* set, no failed connect attempt, failed subscription send or socket closure ends
\* the _connect task; it always makes another connection attempt, so if connection
\* attempts eventually succeed the client becomes Connected again with the connected
\* event set.
C15_ConnectionFailuresNeverFatal ==
    /\ [][ cpc' = "exited" => ~running' ]_vars
    /\ (ConnectionState \in {"Connecting", "Reconnecting"} /\ conn < MaxConnections)
          ~> \/ ConnectionState = "Connected" /\ connected
             \/ ~running
             \/ ~Alive

\* C15 witness: the first socket was lost and the client is on its second socket,
\* Connected, the event set
C15_Witness ==
    /\ conn = 2
    /\ ConnectionState = "Connected"
    /\ connected
    /\ running

\* C16: in the refresh loop of main() a failed iteration is caught, never ends the
\* loop, and triggers exactly one _reconnect call for that iteration; later
\* iterations keep running.
C16_FailedIterationReconnectsOnce ==
    [][ /\ failed_iterations' # failed_iterations =>
              /\ failed_iterations' = failed_iterations + 1
              /\ reconnect_calls' = reconnect_calls + 1
              /\ ~connected'
        /\ reconnect_calls' # reconnect_calls => failed_iterations' # failed_iterations
        /\ mpc \in {"loop", "closing"} => mpc' \in {"loop", "closing"}
        /\ (mpc = "closing" /\ mpc' # mpc) => (mpc' = "loop" /\ ws' = 0) ]_vars

\* C16 witness: an iteration failed, its _reconnect returned, and another iteration
\* has run; the loop goes on
C16_Witness ==
    /\ mpc = "loop"
    /\ failed_iterations = 1
    /\ reconnect_calls = 1
    /\ iterations = 2
    /\ ws = 0

\* C19: every reconnect attempt is preceded by the fixed backoff: a new connection
\* attempt is started only by the task's start or out of the backoff sleep
\* (Reconnecting), never straight from a dropped socket.
C19_BackoffBeforeEveryReconnect ==
    [][ (cpc' = "connecting" /\ cpc # "connecting") => cpc \in {"start", "sleep"} ]_vars

----------------------------------------------------------------------------
(* Claims about the amounts and the failure policy of execute_strategy *)

C18_NoCompensationNoRetry ==
    [][ /\ Steps(attempted') \subseteq SwapCollateral..OpenHedge
        /\ \A i \in 1..Len(attempted') : \A j \in 1..Len(attempted') :
              i < j => attempted'[i] < attempted'[j]
        /\ epc # "idle" => succeeded \subseteq succeeded'
        /\ (result' = "False" /\ result # "False") =>
              /\ succeeded' = succeeded
              /\ Len(attempted') <= Len(attempted) + 1
              /\ epc' = "idle"
              /\ UNCHANGED amountVars \/ attempted' # attempted ]_vars

\* C18 witness: an invocation failed at step 3 (borrow) after the swap and the
\* supply had succeeded; both stay done, nothing else was issued
C18_Witness ==
    /\ epc = "idle"
    /\ result = "False"
    /\ attempted = <<SwapCollateral, SupplyCollateral, BorrowAsset>>
    /\ succeeded = {SwapCollateral, SupplyCollateral}
    /\ eth_supplied > 0

----------------------------------------------------------------------------
(* Claims about the snapshot/context ordering and the recomputation *)

\* C22: if an account snapshot with a nonzero-size position for coin c is processed
\* before any asset context for c has been cached, processing succeeds and the
\* position for c is tracked with currentRate 0 and projectedAPY 0; the position is
\* not dropped and the missing context raises no error.
C22_NoContextMeansRateZero ==
    /\ handling = "rebuilt" =>
          \A i \in OpenEntries(latest_state) :
             LET c == latest_state.assetPositions[i].coin IN
             c \notin DOMAIN asset_contexts =>
                /\ c \in DOMAIN positions
                /\ positions[c].current_funding_rate = 0
                /\ positions[c].funding_apy = 0
    /\ handling = "raised" =>
          \E i \in OpenEntries(latest_state) :
             latest_state.assetPositions[i].missing # "none"

\* C22 witness: a long and a short are tracked with rate 0 and APY 0, no context
\* having been cached for either coin
C22_Witness ==
    /\ handling = "rebuilt"
    /\ asset_contexts = <<>>
    /\ \E c \in DOMAIN positions :
          positions[c].size > 0 /\ positions[c].current_funding_rate = 0
    /\ \E c \in DOMAIN positions :
          /\ positions[c].size < 0
          /\ positions[c].current_funding_rate = 0
          /\ positions[c].funding_apy = 0

\* what a snapshot st and a context cache determine: one entry per coin that st
\* lists with nonzero size
ExpectedPositions(st, cache) ==
    LET coins == { st.assetPositions[i].coin : i \in OpenEntries(st) } IN
    [ c \in coins |->
        LET e == st.assetPositions[CHOOSE i \in OpenEntries(st) : st.assetPositions[i].coin = c]
            size == ParseSzi(e.szi)
            raw == IF c \in DOMAIN cache THEN cache[c].funding ELSE 0
            rate == IF size > 0 THEN -raw ELSE raw
        IN  [ coin |-> c,
              size |-> size,
              current_funding_rate |-> rate,
              funding_apy |-> rate * 8760 * 100,
              current_mark_price |-> IF c \in DOMAIN cache THEN cache[c].markPx ELSE 0 ] ]

\* C23: recomputation is deterministic and idempotent: after process_position_data
\* ran on a stored snapshot and returned, the position set is the one that the
\* snapshot and the context cache determine, whatever positions and snapshots
\* existed before, and running it again on the same snapshot with an unchanged
\* cache leaves the position set as it is.
C23_RecomputationIsAFunctionOfItsInputs ==
    [][ handling' \in {"rebuilt", "returned"} =>
          /\ positions' = ExpectedPositions(latest_state', asset_contexts')
          /\ (handling' = handling /\ latest_state' = latest_state
                /\ asset_contexts' = asset_contexts) => positions' = positions ]_vars

\* C28: an asset-context event for coin c replaces only the cache entry of c: the
\* entries of all other coins, the stored snapshot and the position set are left
\* unchanged, so a tracked position keeps the rate, APY and mark price computed at
\* the last snapshot until the next account snapshot is processed.
C28_AssetEventTouchesOneCacheEntry ==
    [][ (last_channel' = "activeAssetCtx" /\ invoked' = {"activeAssetCtx"}) =>
          /\ positions' = positions
          /\ latest_state' = latest_state
          /\ \E c \in AllowedCoins :
                /\ DOMAIN asset_contexts' = DOMAIN asset_contexts \cup {c}
                /\ \A d \in DOMAIN asset_contexts \ {c} :
                      asset_contexts'[d] = asset_contexts[d] ]_vars

\* C28 witness: an asset-context event for ETH was handled while ETH was tracked:
\* the tracked entry still carries the earlier mark price and rate, and the cache
\* still holds the entry of another coin
C28_Witness ==
    /\ last_channel = "activeAssetCtx"
    /\ invoked = {"activeAssetCtx"}
    /\ "ETH" \in DOMAIN positions
    /\ "ETH" \in DOMAIN asset_contexts
    /\ "BTC" \in DOMAIN asset_contexts
    /\ positions["ETH"].current_mark_price # asset_contexts["ETH"].markPx
    /\ positions["ETH"].current_mark_price # 0
    /\ positions["ETH"].current_funding_rate \notin
          {asset_contexts["ETH"].funding, -asset_contexts["ETH"].funding}

----------------------------------------------------------------------------
(* Claims about re-invocation, polling and the returned value of execute_strategy *)

\* C24: execute_strategy keeps no record of progress between invocations: a second
\* invocation after a first one failed at a step k > 1 starts again at step 1
\* (SwapCollateral) and calls again the steps that had already succeeded; the steps an
\* invocation calls are always an initial part of the sequence 1, 2, 3, 4, 5.
C24_EveryInvocationStartsAtStepOne ==
    /\ \A i \in 1..Len(attempted) : attempted[i] = i
    /\ (epc \notin {"idle", "price", "swap"}) => attempted # <<>>

\* C24 witness: after an invocation that failed with some step done, the running
\* invocation has called the swap and the supply again
C24_Witness ==
    /\ invocations = 2
    /\ epc = "reserves"
    /\ <<"False", TRUE>> \in reports
    /\ attempted = <<SwapCollateral, SupplyCollateral>>
    /\ succeeded = {SwapCollateral, SupplyCollateral}

\* C25: the step-4 confirmation polling always terminates: at most max_retries polls
\* are made, the loop is left at the first poll that reports enough margin, and an
\* invocation that is polling always gets past the polling, also when the deposit
\* never becomes visible.
C25_PollingAlwaysTerminates ==
    /\ [](retries <= max_retries)
    /\ [](marginSeen => epc # "poll")
    /\ [](retries = max_retries => epc # "poll")
    /\ (epc = "poll" ~> epc # "poll")

\* C25 witness: all max_retries polls reported too little margin and the loop was left
C25_Witness ==
    /\ retries = max_retries
    /\ ~marginSeen
    /\ epc = "meta"
    /\ BridgeTransfer \in Steps(attempted)

\* C29: execute_strategy never propagates an exception: a finished invocation returned
\* True or False; it returned True only if step 5 was called and the order came back
\* with status 'ok' and no status entry reporting an error, and every error of a step
\* or collaborator call gives False.
C29_ReturnsFalseOnEveryError ==
    /\ (epc = "idle" /\ invocations > 0) => result \in {"True", "False"}
    /\ result = "True" => /\ OpenHedge \in succeeded
                          /\ attempted[Len(attempted)] = OpenHedge
    /\ (epc = "idle" /\ invocations > 0 /\ OpenHedge \notin succeeded) => result = "False"

\* C29 witness: an invocation returned False after an error, the next one returned True
C29_Witness ==
    /\ invocations = 2
    /\ epc = "idle"
    /\ result = "True"
    /\ \E b \in BOOLEAN : <<"False", b>> \in reports

----------------------------------------------------------------------------
(* Claims about the receive loop, _reconnect and the readiness signals *)

\* C21: a message that cannot be decoded, or whose handler raises, does not end the
\* receive loop and neither closes nor re-opens the connection: after it the task is
\* back at recv on the same open socket, with the event and the subscriptions as they
\* were, so the next message of that socket is received and dispatched.
C21_BadMessageKeepsTheLoop ==
    [][ (received' # received /\ running) =>
          /\ cpc' = "recv"
          /\ open'
          /\ conn' = conn
          /\ ws' = ws
          /\ connected' = connected
          /\ subsSent' = subsSent ]_vars

\* C21 witness: on the first socket a snapshot whose handler raised was followed by
\* an asset context that was dispatched, and the task is at recv on that socket
C21_Witness ==
    /\ conn = 1
    /\ received = 2
    /\ cpc = "recv"
    /\ open
    /\ latest_state.ch = "present"
    /\ latest_state.assetPositions[1].missing # "none"
    /\ last_channel = "activeAssetCtx"
    /\ invoked = {"activeAssetCtx"}
    /\ "ETH" \in DOMAIN asset_contexts

\* C26: _reconnect and the _connect task interleave safely: _reconnect, resumed from
\* ws.close(), never sets self.ws to None while self.ws is the open socket that
\* _connect established in the meantime, and _subscribe_all never abandons the
\* subscriptions of a connection whose socket is open.
C26_ReconnectKeepsTheNewSocket ==
    [][ /\ (ws # 0 /\ ws' = 0) => ~(open /\ ws = conn)
        /\ (cpc = "sub" /\ cpc' = "sleep") => ~open ]_vars

\* C27: when wait_for_connection returns and is_hl_ready is set, all three
\* subscriptions of the connection have been sent, and the connected event is never
\* set on a connection whose subscriptions have not all been issued.
C27_SubscribedBeforeReady ==
    [][ /\ (~is_hl_ready /\ is_hl_ready') => subsSent = AllSubscriptions
        /\ (connected' /\ open' /\ ws' = conn') => subsSent' = AllSubscriptions ]_vars

\* C27 as the code has it: wait_for_connection returns, and is_hl_ready is set, only
\* after the handshake of a connection completed; the connected event is set by the
\* step that completes the handshake, before the subscriptions of that connection
\* are all sent.
C27_ReadyAfterHandshakeOnly ==
    [][ /\ (~is_hl_ready /\ is_hl_ready') => conn >= 1
        /\ (~connected /\ connected') =>
              /\ conn' = conn + 1
              /\ ws' = conn'
              /\ cpc' = "sub"
              /\ Len(subsSent') < Len(AllSubscriptions) ]_vars

\* C27 witness: is_hl_ready is set while the first connection is still subscribing
C27_Witness ==
    /\ is_hl_ready
    /\ hlInit = "done"
    /\ conn = 1
    /\ cpc = "sub"
    /\ open
    /\ connected
    /\ Len(subsSent) < Len(AllSubscriptions)

\* C30: the readiness signals are monotonic: once set, is_hl_ready and is_aave_ready
\* are never cleared, whatever happens to the stream (socket drops, backoff,
\* _reconnect), so a call of wait_for_ready made after it has returned once finds
\* both waits done at once, also while the stream client is not Connected.
C30_ReadinessIsMonotonic ==
    [][ /\ is_hl_ready => is_hl_ready'
        /\ is_aave_ready => is_aave_ready'
        /\ (wpc = "returned" /\ wpc' = "waiting") => GatherDone' ]_vars

\* C30 witness: after a _reconnect call, the stream client in its backoff and the
\* event cleared, a call of wait_for_ready has both waits done
C30_Witness ==
    /\ reconnect_calls >= 1
    /\ cpc = "sleep"
    /\ ~connected
    /\ ~open
    /\ wpc = "waiting"
    /\ GatherDone
    /\ is_hl_ready
    /\ is_aave_ready

====
